---------------------------- MODULE Spec2Model ----------------------------
(***************************************************************************)
(* A model of random_dungeon_mapper.py: the tile catalogue and its         *)
(* rotations, the edge compatibility rule, the grid queries and the        *)
(* row-major, no-backtracking fill loop of main.                           *)
(*                                                                         *)
(* Python lists and tuples are 0-based; TLA+ sequences are 1-based.  A     *)
(* Python index i is the TLA+ index i + 1 throughout.  The image of a tile *)
(* is an opaque handle of the imaging library and is left out of the Tile  *)
(* record; no decision of the program reads it.                            *)
(***************************************************************************)
EXTENDS Integers, Sequences, FiniteSets, TLC

(***************************************************************************)
(* Bounds of the model.                                                    *)
(***************************************************************************)
\* Spec fills every grid of at most MaxCells cells (1x1 ... 4x2, 2x4, 8x1).
MaxCells == 8
\* SpecRotate makes at most MaxCalls successive rotate_copy calls on a tile.
MaxCalls == 4
\* SpecShipped draws each cell's shuffle from NumSamples sample shuffles.
NumSamples == 2

(***************************************************************************)
(* Module constants (lines 16-34).                                         *)
(***************************************************************************)
TOP == 0
RIGHT == 1
BOTTOM == 2
LEFT == 3
Sides == {TOP, RIGHT, BOTTOM, LEFT}

GRID_WIDTH == 5
GRID_HEIGHT == 5

UNDEFINED == 0
CLOSED == 1
HALLWAY == 2
LEFT_WALL == 3
RIGHT_WALL == 4
OPEN == 5
EdgeTypes == {UNDEFINED, CLOSED, HALLWAY, LEFT_WALL, RIGHT_WALL, OPEN}

TOP_EDGE == CLOSED
RIGHT_EDGE == CLOSED
BOTTOM_EDGE == CLOSED
LEFT_EDGE == CLOSED

(***************************************************************************)
(* class Tile.                                                             *)
(***************************************************************************)
Tile(filepath, sides, rotation) ==
    [filepath |-> filepath, sides |-> sides, rotation |-> rotation]

\* Python's None (an unplaced cell), and the two exceptions the program
\* raises, as records so that they compare with tiles.
None == Tile("None", <<>>, 0)
NotImplementedError == Tile("NotImplementedError", <<>>, 0)
NoFittingTile == Tile("Exception: No fitting tile found", <<>>, 0)

\* Python slices s[i:] and s[:i] of a tuple, 0 <= i <= len(s).
SliceFrom(s, i) == SubSeq(s, i + 1, Len(s))
SliceTo(s, i) == SubSeq(s, 1, i)

\* A plausible slip in rotate_copy: the copy's angle is the argument alone,
\* the tile's own angle is forgotten.
rotate_copy_forgets_angle(self, rotation) ==
    IF rotation \notin {90, 180, 270}
    THEN NotImplementedError
    ELSE Tile(self.filepath,
              SliceFrom(self.sides, 1) \o SliceTo(self.sides, 1),
              rotation)

\* Tile.rotate_copy.  The statements are `if rotation == 90: ...` followed by
\* a separate `if rotation == 180: ... else: ...`: the second statement
\* assigns new_sides on both of its branches, so what the first statement
\* assigned (after_first_if) is overwritten whenever rotation = 90.
rotate_copy(self, rotation) ==
    IF rotation \notin {90, 180, 270}
    THEN NotImplementedError
    ELSE LET after_first_if ==
                 IF rotation = 90
                 THEN SliceFrom(self.sides, 3) \o SliceTo(self.sides, 3)
                 ELSE <<>>
             new_sides ==
                 IF rotation = 180
                 THEN SliceFrom(self.sides, 2) \o SliceTo(self.sides, 2)
                 ELSE SliceFrom(self.sides, 1) \o SliceTo(self.sides, 1)
         IN  Tile(self.filepath, new_sides, self.rotation + rotation)

get_side(self, side) == self.sides[side + 1]

get_opposite_side(self, side) ==
    self.sides[((side + 2) % Len(self.sides)) + 1]

(***************************************************************************)
(* build_tiles.                                                            *)
(***************************************************************************)
\* for i in xrange(n): tiles.append(tiles[-1].rotate_copy(90))
RECURSIVE AppendRotations(_, _)
AppendRotations(tiles, n) ==
    IF n = 0
    THEN tiles
    ELSE AppendRotations(Append(tiles, rotate_copy(tiles[Len(tiles)], 90)),
                         n - 1)

build_tiles ==
    LET t01 == <<Tile("dungeon tiles/01 - Corridor .png", <<HALLWAY, HALLWAY, HALLWAY, HALLWAY>>, 0),
                 Tile("dungeon tiles/02 - Corridor End.png", <<CLOSED, CLOSED, HALLWAY, CLOSED>>, 0)>>
        t02 == AppendRotations(t01, 3)
        t03 == AppendRotations(
                   Append(t02, Tile("dungeon tiles/03 - Corridor I.png",
                                    <<HALLWAY, CLOSED, HALLWAY, CLOSED>>, 0)), 1)
        t04 == AppendRotations(
                   Append(t03, Tile("dungeon tiles/04 - Corridor L.png",
                                    <<CLOSED, HALLWAY, HALLWAY, CLOSED>>, 0)), 3)
        t05 == AppendRotations(
                   Append(t04, Tile("dungeon tiles/05 - Corridor T.png",
                                    <<HALLWAY, HALLWAY, HALLWAY, CLOSED>>, 0)), 3)
        t06 == AppendRotations(
                   Append(t05, Tile("dungeon tiles/06 - Room Corner Inner.png",
                                    <<LEFT_WALL, OPEN, OPEN, RIGHT_WALL>>, 0)), 3)
        t07 == AppendRotations(
                   Append(t06, Tile("dungeon tiles/07 - Room Corner.png",
                                    <<CLOSED, LEFT_WALL, RIGHT_WALL, CLOSED>>, 0)), 3)
        t08 == AppendRotations(
                   Append(t07, Tile("dungeon tiles/08 - Room Doorway.png",
                                    <<RIGHT_WALL, HALLWAY, LEFT_WALL, OPEN>>, 0)), 3)
        t09 == AppendRotations(
                   Append(t08, Tile("dungeon tiles/09 - Room Wall.png",
                                    <<LEFT_WALL, OPEN, RIGHT_WALL, CLOSED>>, 0)), 3)
        t10 == Append(t09, Tile("dungeon tiles/10 - Solid Wall.png",
                                <<CLOSED, CLOSED, CLOSED, CLOSED>>, 0))
    IN  Append(t10, Tile("dungeon tiles/11 - Solid Floor.png", <<OPEN, OPEN, OPEN, OPEN>>, 0))

(***************************************************************************)
(* build_grid: height rows of width None cells.  The program passes its    *)
(* module constants GRID_WIDTH and GRID_HEIGHT.                            *)
(***************************************************************************)
build_grid(width, height) ==
    [line \in 1..height |-> [col \in 1..width |-> None]]

\* grid[y][x] for in-range x and y.
Cell(grid, x, y) == grid[y + 1][x + 1]

(***************************************************************************)
(* check_side, get_adjacent_side, check_if_tile_fits.                      *)
(***************************************************************************)
\* A plausible slip in the rule: only one of the two wall pairings is
\* accepted.
compatible_one_wall_pairing(my_side, other_side) ==
    IF other_side = UNDEFINED
    THEN TRUE
    ELSE IF my_side \in {CLOSED, HALLWAY, OPEN}
    THEN my_side = other_side
    ELSE my_side = LEFT_WALL /\ other_side = RIGHT_WALL

\* The rule of check_side (lines 214-220) on the two edge types.
compatible(my_side, other_side) ==
    IF other_side = UNDEFINED
    THEN TRUE
    ELSE IF my_side \in {CLOSED, HALLWAY, OPEN}
    THEN my_side = other_side
    ELSE \/ my_side = LEFT_WALL /\ other_side = RIGHT_WALL
         \/ my_side = RIGHT_WALL /\ other_side = LEFT_WALL

\* What get_adjacent_side answers for a neighbouring cell's content.
FacingSide(other_tile, side) ==
    IF other_tile = None
    THEN UNDEFINED
    ELSE get_opposite_side(other_tile, side)

\* A plausible slip in get_adjacent_side: the `y == 0` and `x == 0` tests are
\* missing, so grid[y - 1] and grid[y][x - 1] are read with index -1, which
\* Python takes from the end of the list.
get_adjacent_side_wraps(grid, x, y, side) ==
    IF side = TOP
    THEN FacingSide(Cell(grid, x, IF y = 0 THEN Len(grid) - 1 ELSE y - 1), side)
    ELSE IF side = RIGHT
    THEN IF x + 1 >= Len(grid[y + 1])
         THEN RIGHT_EDGE
         ELSE FacingSide(Cell(grid, x + 1, y), side)
    ELSE IF side = BOTTOM
    THEN IF y + 1 >= Len(grid)
         THEN BOTTOM_EDGE
         ELSE FacingSide(Cell(grid, x, y + 1), side)
    ELSE IF side = LEFT
    THEN FacingSide(Cell(grid, IF x = 0 THEN Len(grid[y + 1]) - 1 ELSE x - 1, y),
                    side)
    ELSE UNDEFINED

\* get_adjacent_side.  grid[y][x + 1] and grid[y + 1][x] raise IndexError
\* exactly when the index is past the end of the list.
get_adjacent_side(grid, x, y, side) ==
    IF side = TOP
    THEN IF y = 0
         THEN TOP_EDGE
         ELSE FacingSide(Cell(grid, x, y - 1), side)
    ELSE IF side = RIGHT
    THEN IF x + 1 >= Len(grid[y + 1])
         THEN RIGHT_EDGE
         ELSE FacingSide(Cell(grid, x + 1, y), side)
    ELSE IF side = BOTTOM
    THEN IF y + 1 >= Len(grid)
         THEN BOTTOM_EDGE
         ELSE FacingSide(Cell(grid, x, y + 1), side)
    ELSE IF side = LEFT
    THEN IF x = 0
         THEN LEFT_EDGE
         ELSE FacingSide(Cell(grid, x - 1, y), side)
    ELSE UNDEFINED

check_side(my_tile, grid, x, y, side) ==
    compatible(get_side(my_tile, side), get_adjacent_side(grid, x, y, side))

\* A plausible slip in check_if_tile_fits: the LEFT check is missing.
check_if_tile_fits_no_left(grid, x, y, tile) ==
    /\ check_side(tile, grid, x, y, TOP)
    /\ check_side(tile, grid, x, y, RIGHT)
    /\ check_side(tile, grid, x, y, BOTTOM)

check_if_tile_fits(grid, x, y, tile) ==
    /\ check_side(tile, grid, x, y, TOP)
    /\ check_side(tile, grid, x, y, RIGHT)
    /\ check_side(tile, grid, x, y, BOTTOM)
    /\ check_side(tile, grid, x, y, LEFT)

(***************************************************************************)
(* pick_tile_for_space.                                                    *)
(***************************************************************************)
\* One outcome of random.sample(tiles_list, len(tiles_list)): the list
\* rotated to start at position k (0-based).  The len(tiles_list) rotations
\* between them put every tile first, so the tiles pick_tile_for_space can
\* return over them are the tiles it can return over all shuffles.
sample(tiles_list, k) ==
    SliceFrom(tiles_list, k) \o SliceTo(tiles_list, k)

\* for tile in rand_tiles: if check_if_tile_fits(...): return tile
\* and, past the end of the list, raise Exception("No fitting tile found").
RECURSIVE FirstFitting(_, _, _, _, _)
FirstFitting(grid, x, y, rand_tiles, i) ==
    IF i > Len(rand_tiles)
    THEN NoFittingTile
    ELSE IF check_if_tile_fits(grid, x, y, rand_tiles[i])
    THEN rand_tiles[i]
    ELSE FirstFitting(grid, x, y, rand_tiles, i + 1)

\* A plausible slip in pick_tile_for_space: the return is outside the if, so
\* the first tile of the shuffle is returned unchecked.
pick_tile_for_space_unchecked(grid, x, y, tiles_list, k) ==
    sample(tiles_list, k)[1]

\* A plausible slip in pick_tile_for_space: the raise is inside the loop, so
\* the call fails as soon as the first tile of the shuffle does not fit.
pick_tile_for_space_raises_early(grid, x, y, tiles_list, k) ==
    IF check_if_tile_fits(grid, x, y, sample(tiles_list, k)[1])
    THEN sample(tiles_list, k)[1]
    ELSE NoFittingTile

\* pick_tile_for_space, k naming the shuffle that random.sample draws.
pick_tile_for_space(grid, x, y, tiles_list, k) ==
    FirstFitting(grid, x, y, sample(tiles_list, k), 1)

(***************************************************************************)
(* main: the fill loop.                                                    *)
(***************************************************************************)
\* A plausible slip in the assignment: the rows of the grid are one shared
\* list (build_grid written [[None] * w] * h), so grid[y][x] = tile sets
\* column x of every row.
SetCellAliasedRows(grid, x, y, tile) ==
    [r \in 1..Len(grid) |-> [grid[r] EXCEPT ![x + 1] = tile]]

\* grid[y][x] = tile
SetCell(grid, x, y, tile) ==
    [grid EXCEPT ![y + 1][x + 1] = tile]

\* A plausible variant of the loops: odd rows are walked right to left.
\* (-1, -1) stands for the end of the loops.
NextCellSerpentine(grid, x, y) ==
    IF y % 2 = 0
    THEN IF x + 1 < Len(grid[y + 1])
         THEN <<x + 1, y>>
         ELSE IF y + 1 < Len(grid) THEN <<x, y + 1>> ELSE <<-1, -1>>
    ELSE IF x > 0
         THEN <<x - 1, y>>
         ELSE IF y + 1 < Len(grid) THEN <<x, y + 1>> ELSE <<-1, -1>>

\* The cell after (x, y) in `for y, row in enumerate(grid): for x, space in
\* enumerate(row)`; (-1, -1) stands for the end of the loops.
NextCell(grid, x, y) ==
    IF x + 1 < Len(grid[y + 1])
    THEN <<x + 1, y>>
    ELSE IF y + 1 < Len(grid)
    THEN <<0, y + 1>>
    ELSE <<-1, -1>>

tiles_list == build_tiles

VARIABLES
    grid,     \* main's grid: a sequence of rows of tiles or None
    x, y,     \* the loop variables of main: the cell being filled
    pc,       \* where the run is
    chain,    \* SpecRotate: a tile and the copies made of it, in order
    args,     \* SpecRotate: the argument of each rotate_copy call made
    pair,     \* SpecCompat: two tiles of the catalogue and a side of each
    verdict   \* SpecCompat: the rule's answers for the pair, both ways

vars == <<grid, x, y, pc, chain, args, pair, verdict>>
fillVars == <<grid, x, y>>
rotateVars == <<chain, args>>
compatVars == <<pair, verdict>>

IdleFill == grid = <<>> /\ x = 0 /\ y = 0
IdleRotate == chain = <<>> /\ args = <<>>
IdleCompat == pair = <<>> /\ verdict = <<>>

\* The shuffles Spec draws from: every rotation of the catalogue.
AllDraws == 0..(Len(tiles_list) - 1)
\* The shuffles SpecShipped draws from: the catalogue rotated by multiples of
\* half its length.
SampleDraws == {(k * (Len(tiles_list) \div 2)) % Len(tiles_list) : k \in 0..(NumSamples - 1)}

\* main after build_tiles and build_grid, for every grid size of at most
\* MaxCells cells.
Init ==
    /\ \E width \in 1..MaxCells, height \in 1..MaxCells :
           /\ width * height <= MaxCells
           /\ grid = build_grid(width, height)
    /\ x = 0 /\ y = 0
    /\ pc = "fill"
    /\ IdleRotate /\ IdleCompat

\* main after build_tiles and build_grid, with the program's grid size.
InitShipped ==
    /\ grid = build_grid(GRID_WIDTH, GRID_HEIGHT)
    /\ x = 0 /\ y = 0
    /\ pc = "fill"
    /\ IdleRotate /\ IdleCompat

\* One pass of the loop body, random.sample drawing one of Draws.  When
\* pick_tile_for_space returns, the tile is stored and the loops move on
\* (after the last cell main goes on to print_grid and build_final_image);
\* when it raises, the exception is not caught and main ends.
FillStep(Draws) ==
    /\ pc = "fill"
    /\ \E tile \in {pick_tile_for_space(grid, x, y, tiles_list, k) : k \in Draws} :
         IF tile = NoFittingTile
         THEN /\ pc' = "failed"
              /\ UNCHANGED fillVars
         ELSE LET next == NextCell(grid, x, y)
              IN  /\ grid' = SetCell(grid, x, y, tile)
                  /\ IF next = <<-1, -1>>
                     THEN pc' = "compose" /\ UNCHANGED <<x, y>>
                     ELSE pc' = "fill" /\ x' = next[1] /\ y' = next[2]
    /\ UNCHANGED <<rotateVars, compatVars>>

\* print_grid, build_final_image and show: they read the grid only.
Compose ==
    /\ pc = "compose"
    /\ pc' = "done"
    /\ UNCHANGED <<fillVars, rotateVars, compatVars>>

Next == FillStep(AllDraws) \/ Compose
Spec == Init /\ [][Next]_vars

NextShipped == FillStep(SampleDraws) \/ Compose
SpecShipped == InitShipped /\ [][NextShipped]_vars

(***************************************************************************)
(* Tile.rotate_copy applied to every tile: a tile of any four edge types,  *)
(* then up to MaxCalls successive calls, each on the copy the call before  *)
(* returned, as build_tiles chains them.                                   *)
(***************************************************************************)
\* The arguments tried: the three the method accepts and one it refuses.
RotateArgs == {0, 90, 180, 270}

InitRotate ==
    /\ \E sides \in [1..4 -> EdgeTypes] :
           chain = <<Tile("dungeon tiles/tile.png", sides, 0)>>
    /\ args = <<>>
    /\ pc = "rotate"
    /\ IdleFill /\ IdleCompat

RotateCopy ==
    /\ pc = "rotate"
    /\ Len(args) < MaxCalls
    /\ \E rotation \in RotateArgs :
         LET copy == rotate_copy(chain[Len(chain)], rotation)
         IN  IF copy = NotImplementedError
             THEN pc' = "raised" /\ UNCHANGED rotateVars
             ELSE /\ chain' = Append(chain, copy)
                  /\ args' = Append(args, rotation)
                  /\ pc' = "rotate"
    /\ UNCHANGED <<fillVars, compatVars>>

NextRotate == RotateCopy
SpecRotate == InitRotate /\ [][NextRotate]_vars

(***************************************************************************)
(* The rule of check_side applied to every pair of sides of catalogue      *)
(* tiles, in both directions.                                              *)
(***************************************************************************)
InitCompat ==
    /\ \E i \in 1..Len(tiles_list), j \in 1..Len(tiles_list) :
          \E my_at \in Sides, other_at \in Sides :
              pair = <<tiles_list[i], my_at, tiles_list[j], other_at>>
    /\ verdict = <<>>
    /\ pc = "check"
    /\ IdleFill /\ IdleRotate

\* The two edge types of the pair.
MySide == get_side(pair[1], pair[2])
OtherSide == get_side(pair[3], pair[4])

CheckBothWays ==
    /\ pc = "check"
    /\ verdict' = <<compatible(MySide, OtherSide), compatible(OtherSide, MySide)>>
    /\ pc' = "checked"
    /\ UNCHANGED <<fillVars, rotateVars, pair>>

NextCompat == CheckBothWays
SpecCompat == InitCompat /\ [][NextCompat]_vars

(***************************************************************************)
(* Vocabulary of the properties.                                           *)
(***************************************************************************)
Height == Len(grid)
Width == IF Len(grid) = 0 THEN 0 ELSE Len(grid[1])
Cells == {c \in (0..(Width - 1)) \X (0..(Height - 1)) : TRUE}
Placed(g, c) == Cell(g, c[1], c[2]) # None
\* The position of a cell in row-major order, from 0.
RowMajorIndex(c) == c[2] * Width + c[1]
NumPlaced(g) == Cardinality({c \in Cells : Placed(g, c)})
AllBordersClosed ==
    /\ TOP_EDGE = CLOSED /\ RIGHT_EDGE = CLOSED
    /\ BOTTOM_EDGE = CLOSED /\ LEFT_EDGE = CLOSED
SomeTileFits(g, cx, cy) ==
    \E i \in 1..Len(tiles_list) : check_if_tile_fits(g, cx, cy, tiles_list[i])
\* The placed cells of g are the first cells of the row-major order.
PlacedInOrder(g) ==
    LET n == NumPlaced(g)
    IN  \A c \in Cells : Placed(g, c) <=> RowMajorIndex(c) < n
\* Two tiles with the same edge tuple and the same angle.
SameTile(a, b) == a.sides = b.sides /\ a.rotation = b.rotation
\* Both directions of the rule across the edge between a and b, b lying on
\* side `side` of a.
EdgeCompatible(a, b, side) ==
    /\ compatible(get_side(a, side), get_opposite_side(b, side))
    /\ compatible(get_opposite_side(b, side), get_side(a, side))

(***************************************************************************)
(* C1.  Adjacency consistency: in every state of the fill, every two       *)
(* horizontally or vertically adjacent placed tiles are compatible across  *)
(* their shared edge under the rule of check_side, in both directions.     *)
(***************************************************************************)
C1_AdjacencyConsistent ==
    \A c \in Cells :
        Placed(grid, c) =>
            /\ (c[1] + 1 < Width /\ Placed(grid, <<c[1] + 1, c[2]>>)) =>
                   EdgeCompatible(Cell(grid, c[1], c[2]),
                                  Cell(grid, c[1] + 1, c[2]), RIGHT)
            /\ (c[2] + 1 < Height /\ Placed(grid, <<c[1], c[2] + 1>>)) =>
                   EdgeCompatible(Cell(grid, c[1], c[2]),
                                  Cell(grid, c[1], c[2] + 1), BOTTOM)

\* A finished fill of a grid of at least 2x2 cells in which two wall edges
\* meet, horizontally and vertically.
C1_Witness ==
    /\ pc = "done" /\ Width >= 2 /\ Height >= 2
    /\ \E c \in Cells :
          /\ c[1] + 1 < Width
          /\ get_side(Cell(grid, c[1], c[2]), RIGHT) = LEFT_WALL
    /\ \E c \in Cells :
          /\ c[2] + 1 < Height
          /\ get_side(Cell(grid, c[1], c[2]), BOTTOM) \in {LEFT_WALL, RIGHT_WALL}

(***************************************************************************)
(* C2.  Border enforcement: with all four border edges CLOSED, every tile  *)
(* placed in row 0 has CLOSED on TOP, in the last row on BOTTOM, in column *)
(* 0 on LEFT and in the last column on RIGHT.                              *)
(***************************************************************************)
C2_BorderEnforced ==
    AllBordersClosed =>
        \A c \in Cells :
            Placed(grid, c) =>
                LET t == Cell(grid, c[1], c[2])
                IN  /\ c[2] = 0 => get_side(t, TOP) = CLOSED
                    /\ c[2] = Height - 1 => get_side(t, BOTTOM) = CLOSED
                    /\ c[1] = 0 => get_side(t, LEFT) = CLOSED
                    /\ c[1] = Width - 1 => get_side(t, RIGHT) = CLOSED

\* A finished fill of a grid with four distinct corners and a border cell
\* that is open towards the inside.
C2_Witness ==
    /\ AllBordersClosed
    /\ pc \in {"compose", "done"} /\ Width >= 3 /\ Height >= 2
    /\ get_side(Cell(grid, 1, 0), BOTTOM) # CLOSED
    /\ get_side(Cell(grid, 0, 0), RIGHT) # CLOSED

C7_RasterOrder ==
    pc = "fill" =>
        /\ y > 0 => Placed(grid, <<x, y - 1>>)
        /\ x > 0 => Placed(grid, <<x - 1, y>>)
        /\ x + 1 < Width =>
              /\ ~Placed(grid, <<x + 1, y>>)
              /\ get_adjacent_side(grid, x, y, RIGHT) = UNDEFINED
        /\ y + 1 < Height =>
              /\ ~Placed(grid, <<x, y + 1>>)
              /\ get_adjacent_side(grid, x, y, BOTTOM) = UNDEFINED
        /\ y = 0 => get_adjacent_side(grid, x, y, TOP) = TOP_EDGE
        /\ x = 0 => get_adjacent_side(grid, x, y, LEFT) = LEFT_EDGE
        /\ x + 1 = Width => get_adjacent_side(grid, x, y, RIGHT) = RIGHT_EDGE
        /\ y + 1 = Height => get_adjacent_side(grid, x, y, BOTTOM) = BOTTOM_EDGE

\* A cell of the last row is being evaluated whose Top and Left neighbours
\* are placed, whose Right neighbour is in the grid and unplaced, and whose
\* BOTTOM side points off the grid.
C7_Witness ==
    /\ pc = "fill"
    /\ x >= 1 /\ y >= 1
    /\ x + 1 < Width /\ y + 1 = Height
    /\ Placed(grid, <<x, y - 1>>) /\ Placed(grid, <<x - 1, y>>)
    /\ get_adjacent_side(grid, x, y, RIGHT) = UNDEFINED
    /\ get_adjacent_side(grid, x, y, BOTTOM) = BOTTOM_EDGE

(***************************************************************************)
(* C8.  Write-once cells: the grid starts all None and the cells are       *)
(* assigned in strict row-major order; a step that changes the grid        *)
(* assigns the one cell (x, y), which was None, and leaves every other     *)
(* cell as it was, so a placed cell keeps its tile for the rest of the     *)
(* run; a fill that succeeds has assigned every cell.                      *)
(***************************************************************************)
C8_WriteOnce ==
    [][ /\ PlacedInOrder(grid) /\ PlacedInOrder(grid')
        /\ \A c \in Cells :
              Placed(grid, c) => Cell(grid', c[1], c[2]) = Cell(grid, c[1], c[2])
        /\ grid' # grid =>
              /\ pc = "fill"
              /\ ~Placed(grid, <<x, y>>) /\ Placed(grid', <<x, y>>)
              /\ RowMajorIndex(<<x, y>>) = NumPlaced(grid)
              /\ \A c \in Cells :
                    c # <<x, y>> => Cell(grid', c[1], c[2]) = Cell(grid, c[1], c[2])
        /\ pc' \in {"compose", "done"} => \A c \in Cells : Placed(grid', c)
      ]_vars

\* A fill of a grid of several rows and columns has succeeded.
C8_Witness ==
    /\ pc = "done"
    /\ Width >= 2 /\ Height >= 3
    /\ NumPlaced(grid) = Width * Height

C3_RotationRule ==
    \A i \in 1..Len(args) :
        args[i] = 90 =>
            /\ chain[i + 1].sides =
                   <<get_side(chain[i], LEFT), get_side(chain[i], TOP),
                     get_side(chain[i], RIGHT), get_side(chain[i], BOTTOM)>>
            /\ chain[i + 1].rotation = chain[i].rotation + 90

(***************************************************************************)
(* C6.  Rotation closure: four successive rotate_copy(90) calls return a   *)
(* tile with the edge tuple of the tile they started from and an angle     *)
(* congruent to its angle modulo 360.                                      *)
(***************************************************************************)
C6_RotationClosure ==
    \A i \in 1..Len(args) :
        (i + 3 <= Len(args) /\ \A j \in i..(i + 3) : args[j] = 90) =>
            /\ chain[i + 4].sides = chain[i].sides
            /\ chain[i + 4].rotation % 360 = chain[i].rotation % 360

\* Four successive rotations by 90 of a tile with four different edges.
C6_Witness ==
    /\ args = <<90, 90, 90, 90>>
    /\ chain[1].sides = <<CLOSED, HALLWAY, LEFT_WALL, OPEN>>
    /\ Len(chain) = 5

(***************************************************************************)
(* C9.  Chained and direct rotations agree: rotate_copy(180) of a tile has *)
(* the edges and angle of two successive rotate_copy(90) calls on it, and  *)
(* rotate_copy(270) those of three.                                        *)
(***************************************************************************)
C9_ChainedAgreesWithDirect ==
    \A i \in 1..Len(args) :
        /\ (i + 1 <= Len(args) /\ args[i] = 90 /\ args[i + 1] = 90) =>
               SameTile(chain[i + 2], rotate_copy(chain[i], 180))
        /\ (i + 2 <= Len(args) /\ \A j \in i..(i + 2) : args[j] = 90) =>
               SameTile(chain[i + 3], rotate_copy(chain[i], 270))

(***************************************************************************)
(* C5.  Compatibility symmetry: for every two edge types that occur on     *)
(* tiles of the catalogue, the rule of check_side answers the same with    *)
(* the two in either order.                                                *)
(***************************************************************************)
C5_CompatibilitySymmetric ==
    pc = "checked" => verdict[1] = verdict[2]

\* A wall pairing has been checked both ways and accepted.
C5_Witness ==
    /\ pc = "checked"
    /\ MySide = LEFT_WALL /\ OtherSide = RIGHT_WALL
    /\ verdict = <<TRUE, TRUE>>

=============================================================================
